---------------------------- MODULE Spec2Model ----------------------------
(***************************************************************************)
(* The two static file servers of the repository, index.py (the variant    *)
(* that disables caching) and server.py.  Both subclass                     *)
(* http.server.SimpleHTTPRequestHandler, override do_GET (and, in index.py, *)
(* end_headers), and run the handler in a socketserver.TCPServer on port    *)
(* 3000.  The overrides are translated from src/; the methods of the base   *)
(* classes they call are translated from CPython 3.11's http/server.py and  *)
(* socketserver.py, the interpreter the scripts run under, and are named    *)
(* after the methods they follow.                                           *)
(*                                                                          *)
(* A request target is a sequence of tokens: "/" is the separator, a query  *)
(* or a fragment is one token ("?x=1", "#f"), a percent escape is one token *)
(* ("%2e%2e", "%2f", "%00") and every other token is a name.  The string    *)
(* '/' is <<"/">>, '/index.html' is <<"/", "index.html">>, '//' is          *)
(* <<"/", "/">> and '' is << >>.                                            *)
(***************************************************************************)
EXTENDS Integers, Sequences, FiniteSets, TLC

VARIABLES
    variant,    \* "index" (src/index.py) or "server" (src/server.py)
    disk,       \* the files below the document root that exist (absolute paths)
    ip,         \* position in the module-level script; 0 once the process ended
    boundPort,  \* port of the listening socket, 0 while there is none
    binds,      \* calls of socket.bind so far
    stdout,     \* lines printed
    backlog,    \* connections completed by the kernel, not yet accepted
    st,         \* per connection: "new", "queued", "accepted", "handled", "closed"
    nconn,      \* connections made so far
    reads,      \* per connection: request lines read
    sent,       \* per connection: responses started
    failures,   \* a request so far ended in a 404 or in an exception
    last        \* the handler that ran last, until its connection is shut
                \* down: its connection, what it read, what went wrong, its
                \* state when it returned, and whether a request failed before

vars == <<variant, disk, ip, boundPort, binds, stdout, backlog, st, nconn,
          reads, sent, failures, last>>

\* ------------------------------------------------------------------ bounds

\* Connections made to the server in one run.
MaxConns == 2

\* ------------------------------------------------------- program constants

PORT == 3000

RootTarget == <<"/">>

IndexTarget == <<"/", "index.html">>

CacheControl ==
    [k |-> "Cache-Control", v |-> "no-cache, no-store, must-revalidate", f |-> << >>]

Pragma == [k |-> "Pragma", v |-> "no-cache", f |-> << >>]

Expires == [k |-> "Expires", v |-> "0", f |-> << >>]

NoCacheHeaders == <<CacheControl, Pragma, Expires>>

Banner == "Server running at http://localhost:3000/"

Note == "This will automatically serve index.html for the root path"

\* ------------------------------------------------------------- the file system

\* The document root is the working directory; "top" is its parent.
DocRoot == <<"top", "www">>

\* A file outside the document root, beside it.
OutsideFiles == {<<"top", "secret.txt">>}

Dirs == {<<"top">>, DocRoot, DocRoot \o <<"sub">>}

FixedFiles == {DocRoot \o <<"about.html">>, DocRoot \o <<"sub", "a.txt">>}

OptionalFiles == {DocRoot \o <<"index.html">>, DocRoot \o <<"index.htm">>,
                  DocRoot \o <<"secret.txt">>}

IsPrefix(p, q) == Len(p) <= Len(q) /\ SubSeq(q, 1, Len(p)) = p

UnderRoot(p) == IsPrefix(DocRoot, p) /\ Len(p) > Len(DocRoot)

\* The kernel's resolution of a path: "." stays, ".." goes to the parent.
RECURSIVE OsResolve(_, _)
OsResolve(done, rest) ==
    IF rest = << >> THEN done
    ELSE LET w == Head(rest) IN
         IF w = "." THEN OsResolve(done, Tail(rest))
         ELSE IF w = ".."
              THEN OsResolve(IF done = << >> THEN << >>
                             ELSE SubSeq(done, 1, Len(done) - 1), Tail(rest))
              ELSE OsResolve(Append(done, w), Tail(rest))

HasNul(p) == \E i \in 1..Len(p) : p[i] = "NUL"

isdir(d, fspath) == ~HasNul(fspath.segs) /\ OsResolve(<< >>, fspath.segs) \in Dirs

isfile(d, segs) == ~HasNul(segs) /\ OsResolve(<< >>, segs) \in d \cup OutsideFiles

\* ------------------------------------------------------------ request targets

QueryTokens == {"?x=1", "#f"}

\* path.split('?',1)[0] and path.split('#',1)[0]: what precedes the first
\* query or fragment token.
RECURSIVE StripQuery(_)
StripQuery(p) ==
    IF p = << >> \/ Head(p) \in QueryTokens THEN << >>
    ELSE <<Head(p)>> \o StripQuery(Tail(p))

\* urllib.parse.unquote, token by token.
UnquoteToken(t) ==
    CASE t = "%2e%2e" -> <<"..">>
      [] t = "%2f" -> <<"/">>
      [] t = "%00" -> <<"NUL">>
      [] OTHER -> <<t>>

RECURSIVE unquote(_)
unquote(p) ==
    IF p = << >> THEN << >> ELSE UnquoteToken(Head(p)) \o unquote(Tail(p))

IsSep(t) == t = "/"

NotSep(t) == t # "/"

\* posixpath.normpath on the components between the separators: '' and '.'
\* are dropped, '..' removes the component before it and is dropped at the
\* top of a path that starts with a slash.
RECURSIVE normcomps(_, _, _)
normcomps(acc, rest, initial_slash) ==
    IF rest = << >> THEN acc
    ELSE LET c == Head(rest) IN
         IF c = "." THEN normcomps(acc, Tail(rest), initial_slash)
         ELSE IF c # ".." \/ (~initial_slash /\ acc = << >>)
                          \/ (acc # << >> /\ acc[Len(acc)] = "..")
              THEN normcomps(Append(acc, c), Tail(rest), initial_slash)
              ELSE IF acc # << >>
                   THEN normcomps(SubSeq(acc, 1, Len(acc) - 1), Tail(rest),
                                  initial_slash)
                   ELSE normcomps(acc, Tail(rest), initial_slash)

normpath(p) ==
    normcomps(<< >>, SelectSeq(p, NotSep), p # << >> /\ IsSep(Head(p)))

SimpleName(w) == w \notin {".", ".."}

\* translate_path mutated: components that are not simple names are joined
\* to the path like the others.
translate_path_keep_dots(p) ==
    LET q == StripQuery(p)
    IN  [segs |-> DocRoot \o SelectSeq(unquote(q), NotSep),
         slash |-> q # << >> /\ IsSep(q[Len(q)])]

\* SimpleHTTPRequestHandler.translate_path: the local path of a request path,
\* and whether it keeps an explicit trailing slash.
translate_path(p) ==
    LET q == StripQuery(p)
    IN  [segs |-> DocRoot \o SelectSeq(normpath(unquote(q)), SimpleName),
         slash |-> q # << >> /\ IsSep(q[Len(q)])]

\* BaseHTTPRequestHandler.parse_request, gh-87389: a path that starts with
\* '//' is reduced to a single leading slash.
RECURSIVE lstrip_slashes(_)
lstrip_slashes(p) ==
    IF p # << >> /\ IsSep(Head(p)) THEN lstrip_slashes(Tail(p)) ELSE p

collapse_slashes(p) ==
    IF Len(p) >= 2 /\ IsSep(p[1]) /\ IsSep(p[2])
    THEN <<"/">> \o lstrip_slashes(p)
    ELSE p

\* ------------------------------------------------------------ the handler
\* The state of one request handler.  ver is request_version, command and
\* path are self.command and self.path, buf is _headers_buffer and out is what
\* was written to wfile.  An entry of buf or out is a status line (k "STATUS"),
\* a header, the blank line that ends the headers (k "END") or a body (k
\* "BODY"; f names the file or the directory whose bytes or listing it is).
\* code is the code of the last send_response, nresp counts the calls of
\* send_response, base is the path the base class resolved, calls counts the
\* entries into the base class's do_GET and raised says that an exception left
\* the handler.

H(k, v) == [k |-> k, v |-> v, f |-> << >>]

Body(v, f) == [k |-> "BODY", v |-> v, f |-> f]

EndOfHeaders == H("END", "")

NoFile == [kind |-> "none", path |-> << >>]

NewHandler ==
    [ver |-> "HTTP/0.9", command |-> "", path |-> << >>, ims |-> FALSE,
     buf |-> << >>, out |-> << >>, code |-> 0, nresp |-> 0,
     base |-> << >>, calls |-> 0, raised |-> FALSE]

\* BaseHTTPRequestHandler.send_response_only
send_response_only(h, code) ==
    IF h.ver # "HTTP/0.9"
    THEN [h EXCEPT !.buf = Append(@, H("STATUS", ToString(code)))]
    ELSE h

\* BaseHTTPRequestHandler.send_header
send_header(h, keyword, value) ==
    IF h.ver # "HTTP/0.9"
    THEN [h EXCEPT !.buf = Append(@, H(keyword, value))]
    ELSE h

\* BaseHTTPRequestHandler.send_response: log_request, the status line and the
\* Server and Date headers.
send_response(h, code) ==
    LET h1 == [h EXCEPT !.code = code, !.nresp = @ + 1]
    IN  send_header(send_header(send_response_only(h1, code),
                                "Server", "SimpleHTTP"), "Date", "now")

\* BaseHTTPRequestHandler.end_headers and flush_headers
base_end_headers(h) ==
    IF h.ver # "HTTP/0.9"
    THEN [h EXCEPT !.out = @ \o h.buf \o <<EndOfHeaders>>, !.buf = << >>]
    ELSE h

\* end_headers of index.py mutated: the base class ends and flushes the
\* headers first, and the three headers stay in the buffer.
end_headers_after(v, h) ==
    IF v = "index"
    THEN LET h1 == base_end_headers(h)
             h2 == send_header(h1, CacheControl.k, CacheControl.v)
             h3 == send_header(h2, Pragma.k, Pragma.v)
             h4 == send_header(h3, Expires.k, Expires.v)
         IN  h4
    ELSE base_end_headers(h)

\* end_headers of index.py mutated: only successful responses get the headers.
end_headers_on_success(v, h) ==
    IF v = "index" /\ h.code = 200
    THEN LET h1 == send_header(h, CacheControl.k, CacheControl.v)
             h2 == send_header(h1, Pragma.k, Pragma.v)
             h3 == send_header(h2, Expires.k, Expires.v)
         IN  base_end_headers(h3)
    ELSE base_end_headers(h)

\* CustomHTTPRequestHandler.end_headers: index.py overrides it, server.py
\* inherits the base class's.
end_headers(v, h) ==
    IF v = "index"
    THEN LET h1 == send_header(h, CacheControl.k, CacheControl.v)
             h2 == send_header(h1, Pragma.k, Pragma.v)
             h3 == send_header(h2, Expires.k, Expires.v)
         IN  base_end_headers(h3)
    ELSE base_end_headers(h)

\* wfile.write of a body.  The client that has gone makes the write raise, a
\* file that fails under copyfile makes the read raise: what was written of
\* the body so far is cut short.
write_body(h, v, f, fault) ==
    IF fault = "disconnect" \/ (fault = "readerr" /\ v = "file")
    THEN [h EXCEPT !.out = Append(@, Body("cut", f)), !.raised = TRUE]
    ELSE [h EXCEPT !.out = Append(@, Body(v, f))]

HasBody(code) == code >= 200 /\ code \notin {204, 205, 304}

\* BaseHTTPRequestHandler.send_error
send_error(v, h, code, fault) ==
    LET h1 == send_header(send_response(h, code), "Connection", "close")
        h2 == IF HasBody(code)
              THEN send_header(send_header(h1, "Content-Type", "text/html"),
                               "Content-Length", "n")
              ELSE h1
        h3 == end_headers(v, h2)
    IN  IF h.command # "HEAD" /\ HasBody(code)
        THEN write_body(h3, "error", << >>, fault)
        ELSE h3

\* SimpleHTTPRequestHandler.list_directory: the listing is sent as a 200.
list_directory(v, h, dir) ==
    LET h1 == send_header(send_header(send_response(h, 200),
                                      "Content-type", "text/html"),
                          "Content-Length", "n")
    IN  [h |-> end_headers(v, h1), f |-> [kind |-> "listing", path |-> dir]]

\* urllib.parse.urlsplit(self.path).path.endswith('/')
RawPathEndsWithSlash(p) ==
    LET q == StripQuery(p) IN q # << >> /\ IsSep(q[Len(q)])

\* The index file send_head serves for a directory: index.html, else
\* index.htm, else none.
IndexOf(d, dir) ==
    IF isfile(d, dir \o <<"index.html">>) THEN dir \o <<"index.html">>
    ELSE IF isfile(d, dir \o <<"index.htm">>) THEN dir \o <<"index.htm">>
    ELSE << >>

\* send_head from the place where the path names no directory, or the index
\* file of one: 404 for a trailing slash, open() (which raises ValueError for
\* a NUL, and whose OSError gives 404), 304 for a file not modified since,
\* else 200 and the open file.
send_file_head(v, h, d, path, fault) ==
    IF path.slash
    THEN [h |-> send_error(v, h, 404, fault), f |-> NoFile]
    ELSE IF HasNul(path.segs)
    THEN [h |-> [h EXCEPT !.raised = TRUE], f |-> NoFile]
    ELSE IF ~isfile(d, path.segs)
    THEN [h |-> send_error(v, h, 404, fault), f |-> NoFile]
    ELSE IF h.ims
    THEN [h |-> end_headers(v, send_response(h, 304)), f |-> NoFile]
    ELSE LET h1 == send_response(h, 200)
             h2 == send_header(h1, "Content-type", "guessed")
             h3 == send_header(h2, "Content-Length", "n")
             h4 == send_header(h3, "Last-Modified", "mtime")
         IN  [h |-> end_headers(v, h4),
              f |-> [kind |-> "file", path |-> OsResolve(<< >>, path.segs)]]

\* SimpleHTTPRequestHandler.send_head: the status line and the headers of a
\* GET or a HEAD, and the file to copy (NoFile when there is none).
send_head(v, h0, d, fault) ==
    LET h == [h0 EXCEPT !.base = h0.path]
        path == translate_path(h.path)
    IN  IF isdir(d, path)
        THEN IF ~RawPathEndsWithSlash(h.path)
             THEN LET h1 == send_response(h, 301)
                      h2 == send_header(h1, "Location", "path/")
                      h3 == send_header(h2, "Content-Length", "0")
                  IN  [h |-> end_headers(v, h3), f |-> NoFile]
             ELSE LET dir == OsResolve(<< >>, path.segs)
                      index == IndexOf(d, dir)
                  IN  IF index # << >>
                      THEN send_file_head(v, h, d,
                                          [segs |-> index, slash |-> FALSE], fault)
                      ELSE list_directory(v, h, dir)
        ELSE send_file_head(v, h, d, path, fault)

\* SimpleHTTPRequestHandler.do_GET: send_head, then copyfile of what it opened.
base_do_GET(v, h, d, fault) ==
    LET r == send_head(v, [h EXCEPT !.calls = @ + 1], d, fault)
    IN  IF r.f.kind # "none"
        THEN write_body(r.h, r.f.kind, r.f.path, fault)
        ELSE r.h

\* SimpleHTTPRequestHandler.do_HEAD: send_head, and the file is closed.
do_HEAD(v, h, d, fault) == send_head(v, h, d, fault).h

\* do_GET mutated: the root path is rewritten to 'index.htm'.
do_GET_htm(v, h, d, fault) ==
    IF h.path = RootTarget
    THEN base_do_GET(v, [h EXCEPT !.path = <<"/", "index.htm">>], d, fault)
    ELSE base_do_GET(v, h, d, fault)

\* do_GET mutated: every path that resolves to the root directory is
\* rewritten.
do_GET_any_root(v, h, d, fault) ==
    IF translate_path(h.path).segs = DocRoot
    THEN base_do_GET(v, [h EXCEPT !.path = IndexTarget], d, fault)
    ELSE base_do_GET(v, h, d, fault)

\* CustomHTTPRequestHandler.do_GET, the same in both files: the path '/' is
\* replaced by '/index.html', and the base class serves the request.
do_GET(v, h, d, fault) ==
    IF h.path = RootTarget
    THEN base_do_GET(v, [h EXCEPT !.path = IndexTarget], d, fault)
    ELSE base_do_GET(v, h, d, fault)

\* ------------------------------------------------------------ requests
\* What a handler reads from its connection: nothing (the client closed), a
\* request line longer than 65536 bytes, or a request line of a command, a
\* target and a version ("" for the two-word request line of HTTP/0.9),
\* followed by headers with or without an If-Modified-Since that the file
\* satisfies.

Commands == {"GET", "HEAD", "POST"}

Versions == {"", "HTTP/1.0", "HTTP/1.1", "HTTP/abc"}

\* Versions parse_request rejects with 400.
BadVersions == {"HTTP/abc"}

Targets ==
    { <<"/">>, <<"/", "index.html">>, <<"/", "about.html">>,
      <<"/", "missing.html">>, <<"/", "?x=1">>, <<"/", "/">>,
      <<"/", "..", "/", "secret.txt">>,
      <<"/", "sub", "/", "..", "/", "..", "/", "secret.txt">>,
      <<"/", "%2e%2e", "%2f", "secret.txt">>,
      <<"/", "sub">>, <<"/", "sub", "/">>, <<"/", "index.html", "/">>,
      <<"/", "%00">>, <<"/", "..", "/">> }

Faults == {"none", "disconnect", "readerr"}

Line(c, t, ver, ims) ==
    [kind |-> "line", command |-> c, target |-> t, version |-> ver, ims |-> ims]

Eof == [kind |-> "eof", command |-> "", target |-> << >>, version |-> "",
        ims |-> FALSE]

TooLong == [Eof EXCEPT !.kind = "toolong"]

Requests ==
    {Eof, TooLong} \cup
    {Line(c, t, ver, ims) : c \in Commands, t \in Targets, ver \in Versions,
                            ims \in BOOLEAN}

\* BaseHTTPRequestHandler.parse_request: ok says whether the request is to be
\* dispatched; when it is not, the error response was sent, with
\* request_version still the default 'HTTP/0.9' and command still None.
\* close_connection stays True: protocol_version is 'HTTP/1.0', so a handler
\* reads one request.
parse_request(v, h, req, fault) ==
    IF req.version \in BadVersions
    THEN [ok |-> FALSE, h |-> send_error(v, h, 400, fault)]
    ELSE IF req.version = "" /\ req.command # "GET"
    THEN [ok |-> FALSE, h |-> send_error(v, h, 400, fault)]
    ELSE [ok |-> TRUE,
          h |-> [h EXCEPT !.ver = IF req.version = "" THEN @ ELSE req.version,
                          !.command = req.command,
                          !.path = collapse_slashes(req.target),
                          !.ims = req.ims]]

\* BaseHTTPRequestHandler.handle_one_request, which handle() calls once.
handle_one_request(v, d, req, fault) ==
    IF req.kind = "toolong"
    THEN send_error(v, [NewHandler EXCEPT !.ver = ""], 414, fault)
    ELSE IF req.kind = "eof"
    THEN NewHandler
    ELSE LET p == parse_request(v, NewHandler, req, fault)
         IN  IF ~p.ok THEN p.h
             ELSE IF p.h.command = "GET" THEN do_GET(v, p.h, d, fault)
             ELSE IF p.h.command = "HEAD" THEN do_HEAD(v, p.h, d, fault)
             ELSE send_error(v, p.h, 501, fault)

\* ------------------------------------------------------------ the server

Conns == 1..MaxConns

\* The module-level statements of index.py mutated: the line is printed
\* before the server is constructed.
ScriptPrintFirst(v) ==
    IF v = "index" THEN <<"print", "bind", "serve">>
    ELSE <<"print", "note", "bind", "serve">>

\* The module-level statements after PORT = 3000: the TCPServer is constructed
\* (its __init__ binds and listens), the startup line is printed (server.py
\* prints a second line), and serve_forever runs.
Script(v) ==
    IF v = "index" THEN <<"bind", "print", "serve">>
    ELSE <<"bind", "print", "note", "serve">>

At(stmt) == ip # 0 /\ Script(variant)[ip] = stmt

\* process_request mutated: each connection is handled in a thread of its
\* own (socketserver.ThreadingMixIn), so the loop accepts again at once.
MayAcceptThreading(conns) == TRUE

\* socketserver.TCPServer handles a connection inside the accept loop
\* (process_request calls finish_request and shutdown_request): the loop
\* accepts again when no connection is being handled.
MayAccept(conns) == \A c \in Conns : conns[c] \notin {"accepted", "handled"}

\* An exception out of a handler mutated: it ends serve_forever and, with it,
\* the process.
AfterExceptionExit(pos) == 0

\* An exception out of a handler: _handle_request_noblock catches it, reports
\* it (handle_error) and shuts the connection down; serve_forever goes on.
AfterException(pos) == pos

NoExchange == [conn |-> 0, req |-> Eof, fault |-> "none", h |-> NewHandler,
               after |-> FALSE]

Init ==
    /\ variant \in {"index", "server"}
    /\ disk \in {FixedFiles \cup o : o \in SUBSET OptionalFiles}
    /\ ip = 1
    /\ boundPort = 0
    /\ binds = 0
    /\ stdout = << >>
    /\ backlog = << >>
    /\ st = [c \in Conns |-> "new"]
    /\ nconn = 0
    /\ reads = [c \in Conns |-> 0]
    /\ sent = [c \in Conns |-> 0]
    /\ failures = FALSE
    /\ last = NoExchange

\* socketserver.TCPServer(("", PORT), ...) when the port can be bound.
BindOk ==
    /\ At("bind")
    /\ binds' = binds + 1
    /\ boundPort' = PORT
    /\ ip' = ip + 1
    /\ UNCHANGED <<variant, disk, stdout, backlog, st, nconn, reads, sent,
                   failures, last>>

\* The same when bind raises OSError: nothing catches it, the process ends.
BindFails ==
    /\ At("bind")
    /\ binds' = binds + 1
    /\ ip' = 0
    /\ UNCHANGED <<variant, disk, boundPort, stdout, backlog, st, nconn, reads,
                   sent, failures, last>>

\* print(f"Server running at http://localhost:{PORT}/")
PrintBanner ==
    /\ At("print")
    /\ stdout' = Append(stdout, Banner)
    /\ ip' = ip + 1
    /\ UNCHANGED <<variant, disk, boundPort, binds, backlog, st, nconn, reads,
                   sent, failures, last>>

\* server.py: print("This will automatically serve index.html ...")
PrintNote ==
    /\ At("note")
    /\ stdout' = Append(stdout, Note)
    /\ ip' = ip + 1
    /\ UNCHANGED <<variant, disk, boundPort, binds, backlog, st, nconn, reads,
                   sent, failures, last>>

\* A client connects: the kernel completes the connection as soon as the
\* socket listens, whatever the process is doing.
Connect ==
    /\ ip # 0
    /\ boundPort # 0
    /\ nconn < MaxConns
    /\ nconn' = nconn + 1
    /\ backlog' = Append(backlog, nconn + 1)
    /\ st' = [st EXCEPT ![nconn + 1] = "queued"]
    /\ UNCHANGED <<variant, disk, ip, boundPort, binds, stdout, reads, sent,
                   failures, last>>

\* serve_forever: get_request accepts the oldest connection.
Accept ==
    /\ At("serve")
    /\ boundPort # 0
    /\ MayAccept(st)
    /\ backlog # << >>
    /\ st' = [st EXCEPT ![Head(backlog)] = "accepted"]
    /\ backlog' = Tail(backlog)
    /\ UNCHANGED <<variant, disk, ip, boundPort, binds, stdout, nconn, reads,
                   sent, failures, last>>

\* finish_request: the handler is constructed and runs handle() on what the
\* client sends.
Handle(c) ==
    /\ At("serve")
    /\ st[c] = "accepted"
    /\ \E req \in Requests, fault \in Faults :
         LET h == handle_one_request(variant, disk, req, fault)
         IN  /\ last' = [conn |-> c, req |-> req, fault |-> fault, h |-> h,
                         after |-> failures]
             /\ reads' = [reads EXCEPT ![c] = @ + IF req.kind = "eof" THEN 0 ELSE 1]
             /\ sent' = [sent EXCEPT ![c] = @ + h.nresp]
             /\ failures' = (failures \/ h.raised \/ h.code = 404)
             /\ ip' = IF h.raised THEN AfterException(ip) ELSE ip
    /\ st' = [st EXCEPT ![c] = "handled"]
    /\ UNCHANGED <<variant, disk, boundPort, binds, stdout, backlog, nconn>>

\* shutdown_request: the connection is closed and the handler is dropped.
Shutdown(c) ==
    /\ ip # 0
    /\ st[c] = "handled"
    /\ st' = [st EXCEPT ![c] = "closed"]
    /\ last' = NoExchange
    /\ UNCHANGED <<variant, disk, ip, boundPort, binds, stdout, backlog, nconn,
                   reads, sent, failures>>

Next ==
    \/ BindOk
    \/ BindFails
    \/ PrintBanner
    \/ PrintNote
    \/ Connect
    \/ Accept
    \/ \E c \in Conns : Handle(c)
    \/ \E c \in Conns : Shutdown(c)

Spec == Init /\ [][Next]_vars

\* ------------------------------------------------ the handler's methods alone
\* do_GET and do_HEAD called on a handler whose request was parsed already:
\* self.path is any string, also one parse_request never leaves there.

SelfPaths == Targets \cup {<< >>, <<"index.html">>, <<"/", "index.html", "?x=1">>}

Parsed(c, p, ver) ==
    [NewHandler EXCEPT !.ver = ver, !.command = c, !.path = p]

InitUnit ==
    /\ variant \in {"index", "server"}
    /\ disk \in {FixedFiles \cup o : o \in SUBSET OptionalFiles}
    /\ ip = Len(Script(variant))
    /\ boundPort = PORT
    /\ binds = 1
    /\ stdout = IF variant = "index" THEN <<Banner>> ELSE <<Banner, Note>>
    /\ backlog = << >>
    /\ st = [c \in Conns |-> "new"]
    /\ nconn = 0
    /\ reads = [c \in Conns |-> 0]
    /\ sent = [c \in Conns |-> 0]
    /\ failures = FALSE
    /\ last = NoExchange

CallDoGET ==
    /\ \E p \in SelfPaths, ver \in {"HTTP/0.9", "HTTP/1.0"} :
         last' = [conn |-> 0, req |-> Line("GET", p, ver, FALSE),
                  fault |-> "none",
                  h |-> do_GET(variant, Parsed("GET", p, ver), disk, "none"),
                  after |-> FALSE]
    /\ UNCHANGED <<variant, disk, ip, boundPort, binds, stdout, backlog, st,
                   nconn, reads, sent, failures>>

CallDoHEAD ==
    /\ \E p \in SelfPaths, ver \in {"HTTP/0.9", "HTTP/1.0"} :
         last' = [conn |-> 0, req |-> Line("HEAD", p, ver, FALSE),
                  fault |-> "none",
                  h |-> do_HEAD(variant, Parsed("HEAD", p, ver), disk, "none"),
                  after |-> FALSE]
    /\ UNCHANGED <<variant, disk, ip, boundPort, binds, stdout, backlog, st,
                   nconn, reads, sent, failures>>

NextUnit == CallDoGET \/ CallDoHEAD

SpecUnit == InitUnit /\ [][NextUnit]_vars

\* ------------------------------------------------------------ properties

Ran == last.conn # 0

IsBody(e) == e.k = "BODY"

BodyOf(out) == SelectSeq(out, IsBody)

Keys(out) == {out[i].k : i \in 1..Len(out)}

Entries(out) == {out[i] : i \in 1..Len(out)}

HasIndex == (DocRoot \o <<"index.html">>) \in disk

GoodVersion(req) == req.version \in {"HTTP/1.0", "HTTP/1.1"}

\* C1: with index.html in the document root, a GET of '/' has the status and
\* the body of a GET of '/index.html' that differs in nothing else.
C1_RootAsIndex ==
    (Ran /\ HasIndex /\ last.req.kind = "line" /\ last.req.command = "GET"
         /\ last.req.target = RootTarget)
    => LET o == handle_one_request(variant, disk,
                                   [last.req EXCEPT !.target = IndexTarget],
                                   last.fault)
       IN  /\ last.h.code = o.code
           /\ BodyOf(last.h.out) = BodyOf(o.out)

C1_Witness ==
    /\ Ran /\ HasIndex
    /\ last.req = Line("GET", RootTarget, "HTTP/1.0", FALSE)
    /\ last.fault = "none"
    /\ last.h.code = 200
    /\ BodyOf(last.h.out) = <<Body("file", DocRoot \o <<"index.html">>)>>

\* C2 as stated: in index.py every response, whatever its status and the
\* request's method, carries the three no-cache headers.
C2_EveryResponse ==
    (Ran /\ variant = "index" /\ last.h.nresp > 0)
    => \A i \in 1..3 : NoCacheHeaders[i] \in Entries(last.h.out)

\* C2 amended: in index.py every response sent while request_version is not
\* 'HTTP/0.9' (the request line had a version that parse_request accepted, or
\* was too long) carries the three no-cache headers, whatever its status and
\* the request's method.
C2_ResponsesWithHeaders ==
    (Ran /\ variant = "index" /\ last.h.nresp > 0 /\ last.h.ver # "HTTP/0.9")
    => \A i \in 1..3 : NoCacheHeaders[i] \in Entries(last.h.out)

C2_Witness ==
    /\ Ran /\ variant = "index"
    /\ last.req.kind = "line" /\ last.req.command = "POST"
    /\ last.h.code = 501
    /\ \A i \in 1..3 : NoCacheHeaders[i] \in Entries(last.h.out)

EndAt(out) == CHOOSE i \in 1..Len(out) : out[i].k = "END"

NothingThere(p) ==
    LET t == translate_path(p)
    IN  ~isdir(disk, t) /\ ~isfile(disk, t.segs)

\* C4 as stated: a GET whose path, after the rewrite, names no file and no
\* directory under the document root is answered with 404.
C4_MissingIs404 ==
    (Ran /\ last.req.kind = "line" /\ last.req.command = "GET"
         /\ last.h.calls = 1 /\ NothingThere(last.h.base))
    => last.h.code = 404

FileBytes(e) == e.k = "BODY" /\ e.f # << >>

Outside(f) == ~IsPrefix(DocRoot, f)

C6_OneResponsePerRequest ==
    \A c \in Conns : st[c] \in {"handled", "closed"} => sent[c] = reads[c]

Serving(c) == st[c] \in {"accepted", "handled"}

\* A GET of an existing file, with a good version and no condition, that
\* nothing disturbs.
PlainGetOfFile ==
    /\ last.req.kind = "line" /\ last.req.command = "GET"
    /\ GoodVersion(last.req) /\ ~last.req.ims /\ last.fault = "none"
    /\ LET t == translate_path(collapse_slashes(last.req.target))
       IN  ~t.slash /\ ~isdir(disk, t) /\ isfile(disk, t.segs)

\* C7: a request that fails (a 404, a read error, a client that went away,
\* any exception out of the handler) leaves the process in serve_forever, and
\* a later plain GET of an existing file is answered with 200 and the file.
C7_FailureIsLocal ==
    /\ failures => At("serve")
    /\ (Ran /\ last.after /\ PlainGetOfFile)
       => /\ last.h.code = 200 /\ ~last.h.raised
          /\ BodyOf(last.h.out) # << >> /\ BodyOf(last.h.out)[1].v = "file"

C7_Witness ==
    /\ Ran /\ last.after /\ PlainGetOfFile /\ last.h.code = 200
    /\ \E c \in Conns : st[c] = "closed" /\ reads[c] = 1

Printed(line) == \E i \in 1..Len(stdout) : stdout[i] = line

\* C8: the startup line is printed only once port 3000 is bound and before
\* any connection is accepted; bind is called once, on port 3000 only; and
\* when it fails the process has ended with nothing printed and no connection
\* accepted.
C8_BindPrintServe ==
    /\ stdout # << >> => boundPort = PORT
    /\ \A c \in Conns : st[c] \notin {"new", "queued"} => Printed(Banner)
    /\ binds <= 1
    /\ boundPort \in {0, PORT}
    /\ (binds = 1 /\ boundPort = 0)
       => (ip = 0 /\ stdout = << >> /\ \A c \in Conns : st[c] = "new")

C8_Witness ==
    /\ boundPort = PORT /\ Printed(Banner)
    /\ \E c \in Conns : st[c] = "handled" /\ last.h.code = 200

C10_OneAtATime ==
    /\ Cardinality({c \in Conns : Serving(c)}) <= 1
    /\ \A c \in Conns, b \in Conns :
         (b < c /\ st[c] \in {"accepted", "handled", "closed"}) => st[b] = "closed"

C10_Witness ==
    \E c \in Conns, w \in Conns : st[c] = "handled" /\ st[w] = "queued"

=============================================================================
